---- MODULE Spec2Model ----
(***************************************************************************)
(* Model of src/main.rs of windows_service: run() reads the configured    *)
(* commands, starts the stop-signal fan-out thread, spawns one subprocess  *)
(* per command, races a cancellation wait (rx_fut) against a completion   *)
(* wait (process_fut) on a CpuPool, resolves the race in one supervisor    *)
(* thread per command, joins the supervisor threads and returns to         *)
(* service_main.  Command indices are 1..ncmds here (0..N-1 in the code).  *)
(***************************************************************************)
EXTENDS Integers, Sequences, FiniteSets, TLC

\* Largest number of configured commands explored.
MaxCmds == 2

\* Largest number of stop messages the host leaves unread in `end`.
MaxEndQ == 1

Cmds == 1..MaxCmds

\* Exit statuses a subprocess can end with on its own.
NaturalStatus == {"0", "3"}
\* Exit status the OS reports for a subprocess ended by kill().
KilledStatus == "killed"

\* Values of a CpuFuture / of a supervisor's win_res.
Pending == <<"Pending">>
OkNone == <<"Ok", "None">>
OkSome(s) == <<"Ok", "Some", s>>
ErrWait == <<"Err">>

VARIABLES
    ncmds,       \* config.cmds.len()
    mainPc,      \* position of the thread running service_main/run
    mainIdx,     \* next command to spawn, then next thread to join
    joinErr,     \* combined_res is Err
    runRes,      \* value returned by run(): "none", "Ok", "Err"
    exitCode,    \* <<>> until service_main returns, then <<code>>
    endQ,        \* messages in flight on the host stop channel `end`
    endTxAlive,  \* the host still holds the Sender of `end`
    stopSent,    \* the host has sent the stop message
    fanPc,       \* fan-out thread: "none", "poll", "send", "done"
    fanIdx,      \* index of the tx the fan-out sends into next
    chanQ,       \* chanQ[i]: messages in flight on channel #i
    txAlive,     \* txAlive[i]: txs[i] not yet dropped
    rxAlive,     \* rxAlive[i]: rxs[i] not yet dropped
    child,       \* child[i]: "none", "running", "exited"
    status,      \* status[i]: exit status of child i once exited
    rxTask,      \* position of the rx_fut pool task of command i
    procTask,    \* position of the process_fut pool task of command i
    rxRes,       \* value of rx_fut
    procRes,     \* value of process_fut
    rxHeld,      \* the CpuFuture rx_fut has not been dropped
    procHeld,    \* the CpuFuture process_fut has not been dropped
    poolSize,    \* worker threads of the CpuPool
    sup,         \* supervisor thread: "NotStarted","Racing","Done","Panicked"
    outcome,     \* win_res returned by supervisor thread i
    killReq,     \* number of kill() calls made on child i
    errLog,      \* error! records written: <<kind, index>>
    spawnErr,    \* commands whose SharedChild::spawn returned Err
    childAtStop, \* child[i] as it was when the host sent the stop message
    sawDisconnected, \* end.try_recv() has returned Err(Disconnected)
    checked,     \* checked[i]: what try_wait() returned in rx_fut, or "none"
    fired,       \* indices of the channels sent into, in the order of the sends
    earlyStop,   \* the fan-out got the stop before any command was spawned
    lateFired    \* channels sent into when their supervisor was already Done

vars == <<ncmds, mainPc, mainIdx, joinErr, runRes, exitCode, endQ, endTxAlive,
          stopSent, fanPc, fanIdx, chanQ, txAlive, rxAlive, child, status,
          rxTask, procTask, rxRes, procRes, rxHeld, procHeld, poolSize, sup,
          outcome, killReq, errLog, spawnErr, childAtStop,
          sawDisconnected, checked, fired, earlyStop, lateFired>>

mainVars == <<mainPc, mainIdx, joinErr, runRes, exitCode, spawnErr>>
hostVars == <<endQ, endTxAlive, stopSent, childAtStop>>
fanVars == <<fanPc, fanIdx, sawDisconnected, fired, earlyStop, lateFired>>
chanVars == <<chanQ, txAlive, rxAlive>>
childVars == <<child, status, killReq, checked>>
taskVars == <<rxTask, procTask, rxRes, procRes, rxHeld, procHeld>>
supVars == <<sup, outcome>>

Init ==
    /\ ncmds \in 0..MaxCmds
    /\ mainPc = "setup"
    /\ mainIdx = 1
    /\ joinErr = FALSE
    /\ runRes = "none"
    /\ exitCode = <<>>
    /\ endQ = 0
    /\ endTxAlive = TRUE
    /\ stopSent = FALSE
    /\ fanPc = "none"
    /\ fanIdx = 1
    /\ chanQ = [i \in Cmds |-> 0]
    /\ txAlive = [i \in Cmds |-> FALSE]
    /\ rxAlive = [i \in Cmds |-> FALSE]
    /\ child = [i \in Cmds |-> "none"]
    /\ status = [i \in Cmds |-> "none"]
    /\ rxTask = [i \in Cmds |-> "none"]
    /\ procTask = [i \in Cmds |-> "none"]
    /\ rxRes = [i \in Cmds |-> Pending]
    /\ procRes = [i \in Cmds |-> Pending]
    /\ rxHeld = [i \in Cmds |-> FALSE]
    /\ procHeld = [i \in Cmds |-> FALSE]
    /\ poolSize = 0
    /\ sup = [i \in Cmds |-> "NotStarted"]
    /\ outcome = [i \in Cmds |-> Pending]
    /\ killReq = [i \in Cmds |-> 0]
    /\ errLog = {}
    /\ spawnErr = {}
    /\ childAtStop = [i \in Cmds |-> "nostop"]
    /\ sawDisconnected = FALSE
    /\ checked = [i \in Cmds |-> "none"]
    /\ fired = <<>>
    /\ earlyStop = FALSE
    /\ lateFired = {}

----------------------------------------------------------------------------
\* The host (winservice): owner of the Sender of `end`.

\* The host delivers a stop request (the first one, or one more).  Once the
\* fan-out thread has ended the Receiver is gone and a send changes nothing.
HostStop ==
    /\ endTxAlive
    /\ fanPc # "done"
    /\ endQ < MaxEndQ
    /\ stopSent' = TRUE
    /\ endQ' = endQ + 1
    /\ childAtStop' = IF stopSent THEN childAtStop ELSE child
    /\ UNCHANGED <<ncmds, mainVars, endTxAlive, fanVars, chanVars, childVars,
                   taskVars, poolSize, supVars, errLog>>

\* The host loses its Sender without having sent a stop.  (After a stop
\* was sent the program cannot tell whether the Sender still exists: the
\* message stays readable.)
HostDrop ==
    /\ endTxAlive
    /\ ~stopSent
    /\ endTxAlive' = FALSE
    /\ UNCHANGED <<ncmds, mainVars, endQ, stopSent, childAtStop, fanVars,
                   chanVars, childVars, taskVars, poolSize, supVars, errLog>>

----------------------------------------------------------------------------
\* run(), lines 65-137: logging and configuration set-up, the channels and
\* the fan-out thread.  Any `?` of the set-up returns Err from run().
Setup ==
    /\ mainPc = "setup"
    /\ \E ok \in BOOLEAN :
        IF ok
        THEN /\ mainPc' = "pool"
             /\ txAlive' = [i \in Cmds |-> i <= ncmds]
             /\ rxAlive' = [i \in Cmds |-> i <= ncmds]
             /\ fanPc' = "poll"
             /\ UNCHANGED runRes
        ELSE /\ mainPc' = "ret"
             /\ runRes' = "Err"
             /\ UNCHANGED <<txAlive, rxAlive, fanPc>>
    /\ UNCHANGED <<ncmds, mainIdx, joinErr, exitCode, spawnErr, hostVars,
                   fanIdx, sawDisconnected, fired, earlyStop, lateFired, chanQ, childVars, taskVars, poolSize,
                   supVars, errLog>>

----------------------------------------------------------------------------
\* The stop-signal fan-out thread, lines 123-137.

\* One iteration of the loop on end.try_recv().  Ok(_) starts the sends;
\* Err(Empty) and Err(Disconnected) both fall through `if let Ok(_)` and
\* the loop polls again.
FanPoll ==
    /\ fanPc = "poll"
    /\ \/ /\ endQ > 0
          /\ endQ' = IF ncmds = 0 THEN 0 ELSE endQ - 1
          /\ fanPc' = IF ncmds = 0 THEN "done" ELSE "send"
          /\ earlyStop' = (\A i \in Cmds : child[i] = "none")
          /\ UNCHANGED sawDisconnected
       \/ /\ endQ = 0
          /\ ~endTxAlive
          /\ ~sawDisconnected
          /\ sawDisconnected' = TRUE
          /\ UNCHANGED <<endQ, fanPc, earlyStop>>
    /\ UNCHANGED <<ncmds, mainVars, endTxAlive, stopSent, childAtStop, fanIdx,
                   fired, lateFired, chanVars, childVars, taskVars, poolSize, supVars, errLog>>

\* A fan-out without the break of line 134: it polls `end` again.
AfterSendLoop(k) == IF k = ncmds THEN "poll" ELSE "send"

\* Lines 126, 134: the for loop takes the next tx, the break ends the thread
\* after the last one.
AfterSend(k) == IF k = ncmds THEN "done" ELSE "send"

\* tx.send(()) into channel #fanIdx; the tx is dropped at the end of the
\* iteration, the thread ends after the last one and drops `end` with
\* whatever is unread in it.
FanSend ==
    /\ fanPc = "send"
    /\ fanIdx <= ncmds
    /\ IF rxAlive[fanIdx]
       THEN /\ chanQ' = [chanQ EXCEPT ![fanIdx] = @ + 1]
            /\ UNCHANGED errLog
       ELSE /\ errLog' = errLog \cup {<<"send", fanIdx>>}
            /\ UNCHANGED chanQ
    /\ txAlive' = [txAlive EXCEPT ![fanIdx] = FALSE]
    /\ fanIdx' = fanIdx + 1
    /\ fired' = Append(fired, fanIdx)
    /\ lateFired' = IF sup[fanIdx] = "Done"
                    THEN lateFired \cup {fanIdx}
                    ELSE lateFired
    /\ fanPc' = AfterSend(fanIdx)
    /\ endQ' = IF AfterSend(fanIdx) = "done" THEN 0 ELSE endQ
    /\ UNCHANGED <<ncmds, mainVars, endTxAlive, stopSent, childAtStop,
                   sawDisconnected, earlyStop, rxAlive,
                   childVars, taskVars, poolSize, supVars>>

----------------------------------------------------------------------------
\* run(), lines 141-227: the pool and the per-command set-up.

\* A pool with one worker per command.
RequiredPoolCountHalf(n) == n

\* Line 143.
RequiredPoolCount(n) == n * 2

\* CpuPool::new(size) asserts size > 0.
CpuPoolNewPanics(size) == size = 0

\* Where run() continues once command k-1 has been set up.
AfterSpawn(k) == IF k > ncmds THEN "join" ELSE "spawn"

\* The rxs still owned by run() from command k on are dropped when run()
\* unwinds.
DropRxsFrom(k) == [i \in Cmds |-> rxAlive[i] /\ i < k]

PoolCreate ==
    /\ mainPc = "pool"
    /\ IF CpuPoolNewPanics(RequiredPoolCount(ncmds))
       THEN /\ mainPc' = "panicked"
            /\ rxAlive' = DropRxsFrom(1)
            /\ UNCHANGED poolSize
       ELSE /\ mainPc' = AfterSpawn(1)
            /\ poolSize' = RequiredPoolCount(ncmds)
            /\ UNCHANGED rxAlive
    /\ UNCHANGED <<ncmds, mainIdx, joinErr, runRes, exitCode, spawnErr,
                   hostVars, fanVars, chanQ, txAlive, childVars, taskVars,
                   supVars, errLog>>

\* One iteration of the map closure, lines 148-225: spawn the shell, queue
\* rx_fut and process_fut on the pool, start the supervisor thread.
\* SharedChild::spawn(..).unwrap() panics in run() when the spawn fails.
SpawnCmd ==
    /\ mainPc = "spawn"
    /\ mainIdx <= ncmds
    /\ \E ok \in BOOLEAN :
        IF ok
        THEN /\ child' = [child EXCEPT ![mainIdx] = "running"]
             /\ rxTask' = [rxTask EXCEPT ![mainIdx] = "queued"]
             /\ procTask' = [procTask EXCEPT ![mainIdx] = "queued"]
             /\ rxHeld' = [rxHeld EXCEPT ![mainIdx] = TRUE]
             /\ procHeld' = [procHeld EXCEPT ![mainIdx] = TRUE]
             /\ sup' = [sup EXCEPT ![mainIdx] = "Racing"]
             /\ mainIdx' = IF mainIdx = ncmds THEN 1 ELSE mainIdx + 1
             /\ mainPc' = AfterSpawn(mainIdx + 1)
             /\ UNCHANGED <<spawnErr, rxAlive>>
        ELSE /\ mainPc' = "panicked"
             /\ spawnErr' = spawnErr \cup {mainIdx}
             /\ rxAlive' = DropRxsFrom(mainIdx)
             /\ UNCHANGED <<child, rxTask, procTask, rxHeld, procHeld, sup,
                            mainIdx>>
    /\ UNCHANGED <<ncmds, joinErr, runRes, exitCode, hostVars, fanVars,
                   chanQ, txAlive, status, killReq, checked, rxRes, procRes,
                   poolSize, outcome, errLog>>

----------------------------------------------------------------------------
\* The subprocess itself.

\* The shell command ends on its own.
ChildExit(i) ==
    /\ child[i] = "running"
    /\ \E s \in NaturalStatus :
        status' = [status EXCEPT ![i] = s]
    /\ child' = [child EXCEPT ![i] = "exited"]
    /\ UNCHANGED <<ncmds, mainVars, hostVars, fanVars, chanVars, killReq,
                   checked, taskVars, poolSize, supVars, errLog>>

----------------------------------------------------------------------------
\* The pool tasks.  A worker is busy from the moment it takes a task until
\* the task's closure returns.

RxRunning == {"recv", "check", "kill", "ret"}

Busy ==
    Cardinality({i \in Cmds : rxTask[i] \in RxRunning})
    + Cardinality({i \in Cmds : procTask[i] = "wait"})

\* A free worker takes rx_fut off the queue.  If the CpuFuture was dropped
\* meanwhile the closure (and the rx it owns) is dropped without running.
RxStart(i) ==
    /\ rxTask[i] = "queued"
    /\ Busy < poolSize
    /\ IF rxHeld[i]
       THEN /\ rxTask' = [rxTask EXCEPT ![i] = "recv"]
            /\ UNCHANGED rxAlive
       ELSE /\ rxTask' = [rxTask EXCEPT ![i] = "cancelled"]
            /\ rxAlive' = [rxAlive EXCEPT ![i] = FALSE]
    /\ UNCHANGED <<ncmds, mainVars, hostVars, fanVars, chanQ, txAlive,
                   childVars, procTask, rxRes, procRes, rxHeld, procHeld,
                   poolSize, supVars, errLog>>

\* A receive that does not block (try_recv() in place of recv()).
RecvReadyAlways(q, txa) == TRUE

\* rx.recv() returns once there is a message or the tx is gone.
RecvReady(q, txa) == q > 0 \/ ~txa

\* rx.recv(), lines 168-171: returns Ok on a message, Err once the tx is
\* gone and the channel is empty; blocks otherwise.
RxRecv(i) ==
    /\ rxTask[i] = "recv"
    /\ RecvReady(chanQ[i], txAlive[i])
    /\ IF chanQ[i] > 0
       THEN /\ chanQ' = [chanQ EXCEPT ![i] = @ - 1]
            /\ UNCHANGED errLog
       ELSE /\ errLog' = errLog \cup {<<"recv", i>>}
            /\ UNCHANGED chanQ
    /\ rxTask' = [rxTask EXCEPT ![i] = "check"]
    /\ UNCHANGED <<ncmds, mainVars, hostVars, fanVars, txAlive, rxAlive,
                   childVars, procTask, rxRes, procRes, rxHeld, procHeld,
                   poolSize, supVars>>

\* What child.try_wait() can return for a child in state c.
TryWait(c) == IF c = "running" THEN {"OkNone", "Err"} ELSE {"OkSome", "Err"}

\* An rx_fut that never gets to the kill.
AfterTryWaitSkip(r) == "ret"

\* An rx_fut that kills without regard to try_wait().
AfterTryWaitAlways(r) == "kill"

\* Line 174: only Ok(None) from try_wait() leads to the kill.
AfterTryWait(r) == IF r = "OkNone" THEN "kill" ELSE "ret"

RxTryWait(i) ==
    /\ rxTask[i] = "check"
    /\ \E r \in TryWait(child[i]) :
        /\ rxTask' = [rxTask EXCEPT ![i] = AfterTryWait(r)]
        /\ checked' = [checked EXCEPT ![i] = r]
    /\ UNCHANGED <<ncmds, mainVars, hostVars, fanVars, chanVars, child,
                   status, killReq, procTask, rxRes, procRes, rxHeld, procHeld, poolSize,
                   supVars, errLog>>

\* State of a child after a kill() that returned Ok.
Killed(c, st) == IF c = "running" THEN KilledStatus ELSE st

\* An rx_fut that checks and kills again after a failed kill.
AfterKillRetry(failed) == IF failed THEN "check" ELSE "ret"

\* Lines 179-185: after the kill, failed or not, the closure returns.
AfterKill(failed) == "ret"

\* Lines 175-182: child.kill(); a failure is logged and nothing else.
RxKill(i) ==
    /\ rxTask[i] = "kill"
    /\ killReq' = [killReq EXCEPT ![i] = @ + 1]
    /\ \E ok \in BOOLEAN :
        IF ok
        THEN /\ status' = [status EXCEPT ![i] = Killed(child[i], @)]
             /\ child' = [child EXCEPT ![i] = "exited"]
             /\ UNCHANGED errLog
        ELSE /\ errLog' = errLog \cup {<<"kill", i>>}
             /\ UNCHANGED <<child, status>>
    /\ rxTask' = [rxTask EXCEPT ![i] = AfterKill(<<"kill", i>> \in errLog')]
    /\ UNCHANGED <<ncmds, mainVars, hostVars, fanVars, chanVars, checked,
                   procTask, rxRes, procRes, rxHeld, procHeld, poolSize,
                   supVars>>

\* An rx_fut that returned the error of a failed kill.
RxValuePropagate(failed) == IF failed THEN ErrWait ELSE OkNone

\* Line 185: the closure returns Ok(None) whether the kill failed or not;
\* the rx it owned is dropped.
RxValue(failed) == OkNone

RxRet(i) ==
    /\ rxTask[i] = "ret"
    /\ rxRes' = [rxRes EXCEPT ![i] = RxValue(<<"kill", i>> \in errLog)]
    /\ rxTask' = [rxTask EXCEPT ![i] = "done"]
    /\ rxAlive' = [rxAlive EXCEPT ![i] = FALSE]
    /\ UNCHANGED <<ncmds, mainVars, hostVars, fanVars, chanQ, txAlive,
                   childVars, procTask, procRes, rxHeld, procHeld, poolSize,
                   supVars, errLog>>

\* A free worker takes process_fut off the queue (dropped unrun if its
\* CpuFuture was dropped meanwhile).
ProcStart(i) ==
    /\ procTask[i] = "queued"
    /\ Busy < poolSize
    /\ procTask' = [procTask EXCEPT ![i] =
                        IF procHeld[i] THEN "wait" ELSE "cancelled"]
    /\ UNCHANGED <<ncmds, mainVars, hostVars, fanVars, chanVars, childVars,
                   rxTask, rxRes, procRes, rxHeld, procHeld, poolSize,
                   supVars, errLog>>

\* Lines 196-200: value of process_run() when wait() returned st.
ProcValue(st) == OkSome(st)

\* Lines 194-210: child.wait() blocks until the child has exited and
\* returns its exit status.
ProcWait(i) ==
    /\ procTask[i] = "wait"
    /\ child[i] = "exited"
    /\ procRes' = [procRes EXCEPT ![i] = ProcValue(status[i])]
    /\ procTask' = [procTask EXCEPT ![i] = "done"]
    /\ UNCHANGED <<ncmds, mainVars, hostVars, fanVars, chanVars, childVars,
                   rxTask, rxRes, rxHeld, procHeld, poolSize, supVars, errLog>>

\* Lines 196-198, 207: child.wait() fails; the error is logged and is the
\* value of process_fut.
ProcWaitErr(i) ==
    /\ procTask[i] = "wait"
    /\ procRes' = [procRes EXCEPT ![i] = ErrWait]
    /\ errLog' = errLog \cup {<<"shell", i>>}
    /\ procTask' = [procTask EXCEPT ![i] = "done"]
    /\ UNCHANGED <<ncmds, mainVars, hostVars, fanVars, chanVars, childVars,
                   rxTask, rxRes, rxHeld, procHeld, poolSize, supVars>>

----------------------------------------------------------------------------
\* The supervisor thread of command i, lines 213-224.

\* rx_fut.select(process_fut): Select polls its first future first.
Select(a, b) == IF a # Pending THEN a ELSE b

IsOk(r) == r # Pending /\ r # ErrWait

\* A thread that polled the select again after it had returned a value.
CanResolveAgain(s) == s \in {"Racing", "Done"}

\* The thread calls wait() on the select once and returns its value.
CanResolve(s) == s = "Racing"

\* The race is resolved as soon as one side is ready.  On Ok the map
\* closure drops the losing CpuFuture; on Err it stays in the returned value.
SupResolve(i) ==
    /\ CanResolve(sup[i])
    /\ Select(rxRes[i], procRes[i]) # Pending
    /\ LET win == Select(rxRes[i], procRes[i]) IN
        /\ outcome' = [outcome EXCEPT ![i] = win]
        /\ IF IsOk(win)
           THEN /\ rxHeld' = [rxHeld EXCEPT ![i] = FALSE]
                /\ procHeld' = [procHeld EXCEPT ![i] = FALSE]
                /\ UNCHANGED errLog
           ELSE /\ errLog' = errLog \cup {<<"process", i>>}
                /\ UNCHANGED <<rxHeld, procHeld>>
    /\ sup' = [sup EXCEPT ![i] = "Done"]
    /\ UNCHANGED <<ncmds, mainVars, hostVars, fanVars, chanVars, childVars,
                   rxTask, procTask, rxRes, procRes, poolSize>>

\* The supervisor thread unwinds instead of returning win_res: the case
\* join() reports as Err (lines 230, 233).
SupPanic(i) ==
    /\ sup[i] = "Racing"
    /\ sup' = [sup EXCEPT ![i] = "Panicked"]
    /\ UNCHANGED <<ncmds, mainVars, hostVars, fanVars, chanVars, childVars,
                   taskVars, poolSize, outcome, errLog>>

----------------------------------------------------------------------------
\* run(), lines 229-237, and service_main.

Finished(s) == s \in {"Done", "Panicked"}

\* fut_thread.join() of the next thread.  Collecting into a Result stops at
\* the first Err: the remaining threads are not joined.
JoinNext ==
    /\ mainPc = "join"
    /\ ~joinErr
    /\ mainIdx <= ncmds
    /\ Finished(sup[mainIdx])
    /\ joinErr' = (sup[mainIdx] = "Panicked")
    /\ mainIdx' = mainIdx + 1
    /\ UNCHANGED <<ncmds, mainPc, runRes, exitCode, spawnErr, hostVars,
                   fanVars, chanVars, childVars, taskVars, poolSize, supVars, errLog>>

\* A run() that reported a subprocess's non-zero exit status as its own error.
RunValueStrict(err, outs) ==
    IF \E i \in DOMAIN outs : outs[i] \in {OkSome(st) : st \in {"3", KilledStatus}}
    THEN "Err"
    ELSE "Ok"

\* Line 237: run() returns Ok(()) whatever the join result err and the
\* supervisors' values outs were.
RunValue(err, outs) == "Ok"

\* Lines 233-237: a join error is logged; run() returns Ok(()).
RunReturn ==
    /\ mainPc = "join"
    /\ joinErr \/ mainIdx > ncmds
    /\ errLog' = IF joinErr THEN errLog \cup {<<"combine", 0>>} ELSE errLog
    /\ runRes' = RunValue(joinErr, outcome)
    /\ mainPc' = "ret"
    /\ UNCHANGED <<ncmds, mainIdx, joinErr, exitCode, spawnErr, hostVars,
                   fanVars, chanVars, childVars, taskVars, poolSize, supVars>>

\* Lines 242-258.
ServiceMainCode(r) == IF r = "Ok" THEN 0 ELSE 1

ServiceMain ==
    /\ mainPc = "ret"
    /\ exitCode' = <<ServiceMainCode(runRes)>>
    /\ errLog' = IF runRes = "Err" THEN errLog \cup {<<"run", 0>>} ELSE errLog
    /\ mainPc' = "exited"
    /\ UNCHANGED <<ncmds, mainIdx, joinErr, runRes, spawnErr, hostVars,
                   fanVars, chanVars, childVars, taskVars, poolSize, supVars>>

----------------------------------------------------------------------------
Next ==
    \/ HostStop
    \/ HostDrop
    \/ Setup
    \/ FanPoll
    \/ FanSend
    \/ PoolCreate
    \/ SpawnCmd
    \/ JoinNext
    \/ RunReturn
    \/ ServiceMain
    \/ \E i \in Cmds : ChildExit(i)
    \/ \E i \in Cmds : RxStart(i)
    \/ \E i \in Cmds : RxRecv(i)
    \/ \E i \in Cmds : RxTryWait(i)
    \/ \E i \in Cmds : RxKill(i)
    \/ \E i \in Cmds : RxRet(i)
    \/ \E i \in Cmds : ProcStart(i)
    \/ \E i \in Cmds : ProcWait(i)
    \/ \E i \in Cmds : ProcWaitErr(i)
    \/ \E i \in Cmds : SupResolve(i)
    \/ \E i \in Cmds : SupPanic(i)

Spec == Init /\ [][Next]_vars

\* Every thread of the program that can take a step eventually takes one.
\* Nothing is assumed of the host, of the subprocesses or of panics.
Fairness ==
    /\ WF_vars(Setup) /\ WF_vars(FanPoll) /\ WF_vars(FanSend)
    /\ WF_vars(PoolCreate) /\ WF_vars(SpawnCmd) /\ WF_vars(JoinNext)
    /\ WF_vars(RunReturn) /\ WF_vars(ServiceMain)
    /\ \A i \in Cmds :
        /\ WF_vars(RxStart(i)) /\ WF_vars(RxRecv(i)) /\ WF_vars(RxTryWait(i))
        /\ WF_vars(RxKill(i)) /\ WF_vars(RxRet(i)) /\ WF_vars(ProcStart(i))
        /\ WF_vars(ProcWait(i)) /\ WF_vars(SupResolve(i))

FairSpec == Spec /\ Fairness

----------------------------------------------------------------------------
\* Vocabulary of the properties.

Configured == 1..ncmds

\* The set-up of run() succeeded (the fan-out thread exists).
SetupDone == fanPc # "none"

\* Outcomes: Ok(Some(status)) is Completed(status), Ok(None) is
\* TerminatedByCancellation, Err is WaitFailed.
IsCompleted(o) == Len(o) = 3
IsCancelled(o) == o = OkNone
IsWaitFailed(o) == o = ErrWait
SpawnFailed == <<"Err", "Spawn">>

----------------------------------------------------------------------------
\* C1: each command gets exactly one Outcome from its supervisor thread: a
\* supervisor is Done exactly when its Outcome exists, it stays Done, and an
\* Outcome once reported never changes.
OneOutcomePerCommand ==
    [][\A i \in Cmds :
        /\ (sup'[i] = "Done") <=> (outcome'[i] # Pending)
        /\ sup[i] = "Done" => sup'[i] = "Done"
        /\ outcome[i] # Pending => outcome'[i] = outcome[i]]_vars

\* Every command was spawned and has its Outcome; for one of them the losing
\* future became ready after the Outcome was reported.
OneOutcomeWitness ==
    /\ ncmds = MaxCmds
    /\ \A i \in Configured : sup[i] = "Done" /\ outcome[i] # Pending
    /\ \E i \in Configured :
        /\ rxRes[i] # Pending
        /\ procRes[i] # Pending
        /\ outcome[i] # Select(rxRes[i], procRes[i])

----------------------------------------------------------------------------
\* C2: if the stop message is sent while subprocess i is running, the
\* Outcome of supervisor i is TerminatedByCancellation, not Completed.
\* Stated for the runs in which the subprocess did not end on its own and
\* the kill succeeded, so that only the race of the two futures decides it.
StopWhileRunningCancels ==
    \A i \in Cmds :
        (/\ childAtStop[i] = "running"
         /\ status[i] = KilledStatus
         /\ outcome[i] # Pending
         /\ ~IsWaitFailed(outcome[i]))
        => (IsCancelled(outcome[i]) /\ child[i] # "running")

\* C3: if subprocess i had already exited on its own when the stop message
\* was sent, its Outcome is never TerminatedByCancellation and no kill is
\* issued for it.
ExitedBeforeStopNotCancelled ==
    \A i \in Cmds :
        childAtStop[i] = "exited"
        => (killReq[i] = 0 /\ ~IsCancelled(outcome[i]))

\* C4: once the host has sent the stop message, run() eventually returns to
\* service_main (for at least one configured command).
StopLeadsToReturn ==
    (stopSent /\ ncmds >= 1) ~> (runRes # "none")

\* C5: a failed spawn of command i ends supervisor i with Outcome
\* SpawnFailed and does not abort run().
SpawnFailureContained ==
    \A i \in spawnErr :
        /\ sup[i] = "Done"
        /\ outcome[i] = SpawnFailed
        /\ mainPc # "panicked"

\* C6: service_main returns a non-zero code whenever an Outcome is WaitFailed
\* or a supervisor thread could not be joined.
FailureGivesNonZero ==
    (/\ exitCode # <<>>
     /\ \/ joinErr
        \/ \E i \in Configured : IsWaitFailed(outcome[i]))
    => exitCode # <<0>>

\* C7: service_main returns 0 whenever run() got as far as the aggregation,
\* every Outcome is Completed (with any exit status) or
\* TerminatedByCancellation, and no join failed.
AllGoodGivesZero ==
    (/\ exitCode # <<>>
     /\ SetupDone
     /\ ~joinErr
     /\ \A i \in Configured :
            IsCompleted(outcome[i]) \/ IsCancelled(outcome[i]))
    => exitCode = <<0>>

\* service_main has returned after a run in which one subprocess was
\* Completed with a non-zero exit status and every join succeeded.
AllGoodWitness ==
    /\ exitCode # <<>>
    /\ ncmds >= 1
    /\ ~joinErr
    /\ \A i \in Configured :
            IsCompleted(outcome[i]) \/ IsCancelled(outcome[i])
    /\ \E i \in Configured : outcome[i] = OkSome("3")

\* C8: run() does not return from the aggregation while a supervisor thread
\* is still running.
NoEarlyReturn ==
    runRes = "Ok" => \A i \in Configured : Finished(sup[i])

\* C9: with zero configured commands run() goes through to its return and
\* service_main returns 0 without any Outcome.
ZeroCommandsSucceed ==
    (ncmds = 0 /\ SetupDone)
    => /\ mainPc # "panicked"
       /\ exitCode \in {<<>>, <<0>>}
       /\ \A i \in Cmds : outcome[i] = Pending

\* C10: when end.try_recv() reports that the host's Sender is gone, the
\* fan-out logs the failure and stops polling.
LostStopChannelIsFatal ==
    sawDisconnected => (<<"end", 0>> \in errLog /\ fanPc # "poll")

----------------------------------------------------------------------------
\* The fan-out has sent into channel #i.
Fired(i) == \E k \in 1..Len(fired) : fired[k] = i

\* rx_fut of command i is past its rx.recv().
Observed(i) == rxTask[i] \in {"check", "kill", "ret", "done"}

ExitedAtCheckNotCancelled ==
    \A i \in Cmds :
        (checked[i] = "OkSome" /\ outcome[i] # Pending)
        => (killReq[i] = 0 /\ ~IsCancelled(outcome[i]))

\* C13: an Outcome Completed(status) never carries the status produced by
\* the kill.
CompletedNeverKilled ==
    \A i \in Cmds :
        IsCompleted(outcome[i]) => outcome[i][3] \in NaturalStatus

\* C14: a kill of subprocess i is issued only after the host sent the stop,
\* the fan-out fired token i and rx_fut i received it; without a stop there
\* is no kill.
KillOnlyAfterObservedStop ==
    \A i \in Cmds :
        (killReq[i] > 0 \/ rxTask[i] = "kill")
        => /\ stopSent
           /\ Fired(i)
           /\ <<"send", i>> \notin errLog
           /\ <<"recv", i>> \notin errLog
           /\ chanQ[i] = 0

\* A subprocess was killed by its rx_fut.
KillWitness ==
    \E i \in Configured : killReq[i] = 1 /\ status[i] = KilledStatus

\* C15: kill() is called at most once per subprocess, and only by the rx_fut
\* of the same command at its kill step.
KillAtMostOnceByOwner ==
    [][\A i \in Cmds :
        /\ killReq'[i] <= 1
        /\ killReq'[i] # killReq[i]
           => /\ rxTask[i] = "kill"
              /\ \A j \in Cmds \ {i} : killReq'[j] = killReq[j]]_vars

\* Every configured subprocess had its kill() call, one of them a failed one.
KillOnceWitness ==
    /\ ncmds = MaxCmds
    /\ \A i \in Configured : killReq[i] = 1
    /\ \E i \in Configured : <<"kill", i>> \in errLog /\ rxTask[i] = "done"

----------------------------------------------------------------------------
\* C16: the fan-out fires nothing before it has read a stop; it then fires
\* the tokens in increasing index order, each once, is never blocked at a
\* send, and ends after the last one: a further stop fires nothing.
FanOutFiresOnceInOrder ==
    /\ [](/\ Len(fired) <= ncmds
          /\ \A k \in 1..Len(fired) : fired[k] = k
          /\ fanPc \in {"none", "poll"} => (fired = <<>> /\ chanQ = [i \in Cmds |-> 0])
          /\ fired # <<>> => stopSent
          /\ fanPc = "send" => ENABLED FanSend
          /\ (SetupDone /\ ncmds >= 1 /\ Len(fired) = ncmds) => fanPc = "done")
    /\ [][fanPc = "done"
          => /\ fanPc' = "done"
             /\ fired' = fired
             /\ \A i \in Cmds : chanQ'[i] <= chanQ[i]]_vars

\* A second stop is unread in `end` while the fan-out is between two sends.
FanOutWitness ==
    /\ ncmds = MaxCmds
    /\ fanPc = "send"
    /\ fired # <<>>
    /\ endQ > 0

NoTaskStarved ==
    /\ \A i \in Cmds :
        (rxTask[i] = "queued" \/ procTask[i] = "queued") => Busy < poolSize
    /\ \A i \in Cmds : rxTask[i] = "queued" => ENABLED RxStart(i)
    /\ (fanPc = "poll" /\ endQ > 0) => ENABLED FanPoll
    /\ fanPc = "send" => ENABLED FanSend

\* One rx_fut is still queued while every other task of the pool is blocked.
NoTaskStarvedWitness ==
    /\ ncmds = MaxCmds
    /\ ~stopSent
    /\ \A i \in Configured : procTask[i] = "wait" /\ child[i] = "running"
    /\ \E i \in Configured :
        /\ rxTask[i] = "queued"
        /\ \A j \in Configured \ {i} : rxTask[j] = "recv"

\* C19: once supervisor i is Done, the task that lost the race does not keep
\* a pool worker for ever (stated for a supervisor whose subprocess
\* Completed, where the loser is rx_fut).
LoserReleasesWorker ==
    \A i \in Cmds :
        (sup[i] = "Done" /\ IsCompleted(outcome[i]))
        ~> (rxTask[i] \notin RxRunning /\ procTask[i] # "wait")

====
